---- MODULE Spec2Model ----
(***************************************************************************)
(* The workflow engine of backend/core/langgraph_mcp.py (class             *)
(* LangGraphMCP): the graph of nodes built by _build_workflow, the node    *)
(* handlers, the routing functions, _update_step and process_query.        *)
(*                                                                         *)
(* The AgentState dictionary is the record `state`; every handler receives *)
(* it and assigns to its keys, as the source does.  A handler is entered   *)
(* at its `await self._update_step(...)` call (position "step"), then runs *)
(* the rest of its body (position "work"), then the engine evaluates the   *)
(* edge leaving the node (position "route").  A routing function is given  *)
(* the same dictionary, so what it assigns stays assigned for the nodes    *)
(* that follow.  Texts produced by the                                     *)
(* language model are small tokens; wall-clock values (time.time()) are    *)
(* not part of the model.  A file path is represented by its lower-cased   *)
(* extension, the only part of it the engine reads.                        *)
(*                                                                         *)
(* Spec is one traversal of the graph at a time.  ConcurrentSpec is two    *)
(* calls of LangGraphMCP.process_query running together on the registry    *)
(* they share.  PipelineSpec is the sequential pipeline of                 *)
(* backend/agents/mcp.py (class MultiAgentControlPlane) with the agents of *)
(* backend/agents/base_agent.py, its registry, cancel_session,             *)
(* cleanup_old_sessions and the clock.  StreamSpec adds                    *)
(* stream_agent_progress of backend/core/streaming.py to the pipeline.     *)
(* ExecuteSpec is BaseAgent.execute called by two sessions on the shared   *)
(* agents, DebugSpec is DeveloperMode of backend/debug/developer_mode.py,  *)
(* ChunkSpec is DocumentProcessor.chunk_text.  Each specification leaves   *)
(* the variables of the others as Init set them.                           *)
(***************************************************************************)
EXTENDS Integers, Sequences, FiniteSets, TLC

VARIABLES
    state,            \* the AgentState of the traversal
    node,             \* the node the traversal is at, or idle / returned / raised
    at,               \* position inside the node: step, work, route
    sessions,         \* LangGraphMCP.sessions, the session registry
    total_documents,  \* VectorStore.collection.count()
    stats_report,     \* history: total_documents as get_stats last reported it
                      \* to _route_after_intent in this traversal (-1: not asked)
    path,             \* history: the nodes whose body has run in this traversal
    calls,            \* concurrent process_query calls of LangGraphMCP: for each
                      \* caller its AgentState, node and position
    mcp_sessions,     \* MultiAgentControlPlane.sessions (agents/mcp.py)
    mcp_call,         \* the process_query call of MultiAgentControlPlane:
                      \* its arguments, its position and the exception in flight
    agent_status,     \* BaseAgent.status of the four agents of the pipeline
    now,              \* time.time(), in seconds
    mcp_last,         \* the operation an outside caller of the pipeline's
                      \* registry performed in the last step (get_session_status,
                      \* cancel_session, cleanup_old_sessions) and what it returned
    stream,           \* the stream_agent_progress generator: its position, its
                      \* session id and the registry entry session_data refers to
    executes,         \* for each caller, the BaseAgent.execute call it has in
                      \* flight on an agent of the pipeline, if any
    debug_enabled,    \* DeveloperMode.debug_enabled
    session_logs,     \* DeveloperMode.session_logs
    global_logs,      \* DeveloperMode.global_logs
    debug_last,       \* the operation of DeveloperMode of the last step
    chunker           \* the DocumentProcessor.chunk_text call: its arguments,
                      \* its position, start and chunks

vars == <<state, node, at, sessions, total_documents, stats_report, path,
          calls, mcp_sessions, mcp_call, agent_status, now, mcp_last,
          stream, executes, debug_enabled, session_logs, global_logs,
          debug_last, chunker>>

\* The single traversal of the graph, the concurrent calls, the pipeline.
graph_vars == <<state, node, at, stats_report, path>>

concurrent_vars == <<calls>>

pipeline_vars == <<mcp_sessions, mcp_call, agent_status, now, mcp_last>>

\* The execute calls of concurrent callers, the developer mode, the chunker.
service_vars == <<executes, debug_enabled, session_logs, global_logs,
                  debug_last, chunker>>

(***************************************************************************)
(* Bounds of the model.                                                    *)
(***************************************************************************)
MaxDocs == 2

SessionIds == {"s1"}

Queries == {"Compare TCP and UDP"}

None == "None"

FilePaths == {None, ".png", ".wav", ".pdf", ".txt", ".zip"}

Intents == {"summarize", "compare", "explain", "research", "analyze",
            "general", "Compare"}

(***************************************************************************)
(* Constants of the program.                                               *)
(***************************************************************************)
RetryLimit == 1

CritiqueAttemptLimit == 2

FinalStep == 8

ImageSuffixes == {".png", ".jpg", ".jpeg", ".gif", ".bmp"}

AudioSuffixes == {".wav", ".mp3", ".m4a", ".flac"}

DocumentSuffixes == {".pdf", ".docx", ".txt"}

Nodes == {"preprocess", "intent_classification", "multimodal_processing",
          "research", "compare", "retrieve", "summarize", "critique", "tts",
          "finalize"}

END == "END"

InFlight == node \in Nodes

(***************************************************************************)
(* _build_workflow: the edges of the graph.  A fixed edge names the next   *)
(* node; a conditional edge maps the label its routing function returns to *)
(* the next node.                                                          *)
(***************************************************************************)
FixedEdges ==
    [preprocess |-> "intent_classification",
     multimodal_processing |-> "summarize",
     research |-> "summarize",
     compare |-> "summarize",
     retrieve |-> "summarize",
     finalize |-> END]

\* Mutant of IntentEdges: the compare label leading to research.
IntentEdges_compare_to_research ==
    [multimodal |-> "multimodal_processing",
     research |-> "research",
     compare |-> "research",
     retrieve |-> "retrieve",
     summarize |-> "summarize"]

IntentEdges ==
    [multimodal |-> "multimodal_processing",
     research |-> "research",
     compare |-> "compare",
     retrieve |-> "retrieve",
     summarize |-> "summarize"]

SummarizeEdges ==
    [critique |-> "critique", tts |-> "tts", finalize |-> "finalize"]

\* Mutant of CritiqueEdges: the retry edge leading back to preprocess.
CritiqueEdges_retry_preprocess ==
    [retry |-> "preprocess", tts |-> "tts", finalize |-> "finalize"]

CritiqueEdges ==
    [retry |-> "research", tts |-> "tts", finalize |-> "finalize"]

TtsEdges == [finalize |-> "finalize"]

(***************************************************************************)
(* process_query: the initial AgentState.                                  *)
(***************************************************************************)
initial_state(query, session_id, enable_tts, file_path) ==
    [query |-> query,
     session_id |-> session_id,
     enable_tts |-> enable_tts,
     file_path |-> file_path,
     input_type |-> "text",
     intent |-> "",
     confidence |-> 0,
     entities |-> <<>>,
     context |-> <<>>,
     research_content |-> "",
     comparison_result |-> "",
     vision_result |-> "",
     ocr_result |-> "",
     transcription |-> "",
     retrieved_content |-> "",
     summary |-> "",
     key_points |-> <<>>,
     quality_score |-> 0,
     needs_improvement |-> FALSE,
     retry_count |-> 0,
     final_result |-> <<>>,
     audio_file |-> None,
     processing_steps |-> <<>>,
     current_step |-> 0]

new_session == [status |-> "processing", steps |-> <<>>, current_step |-> 0]

(***************************************************************************)
(* _update_step: the record appended, and the mirror kept in the registry. *)
(***************************************************************************)
\* Mutant of step_info: the last step compared with <= in place of <.
step_info_inclusive(message, step) ==
    [step |-> step,
     message |-> message,
     status |-> IF step <= FinalStep THEN "active" ELSE "completed"]

step_info(message, step) ==
    [step |-> step,
     message |-> message,
     status |-> IF step < FinalStep THEN "active" ELSE "completed"]

update_step_state(st, message, step) ==
    [st EXCEPT !.processing_steps = Append(@, step_info(message, step)),
               !.current_step = step]

\* Mutant of update_step_sessions: the steps mirrored into every entry of
\* the registry, not only the entry of the state's session.
update_step_sessions_every_entry(sess, st, message, step) ==
    IF st.session_id # "" /\ st.session_id \in DOMAIN sess
    THEN [s \in DOMAIN sess |->
            [sess[s] EXCEPT
                !.steps = update_step_state(st, message, step).processing_steps,
                !.current_step = step]]
    ELSE sess

update_step_sessions(sess, st, message, step) ==
    IF st.session_id # "" /\ st.session_id \in DOMAIN sess
    THEN [sess EXCEPT ![st.session_id] =
            [@ EXCEPT !.steps = update_step_state(st, message, step).processing_steps,
                      !.current_step = step]]
    ELSE sess

(***************************************************************************)
(* The _update_step call a handler starts with: its message and step       *)
(* number.  _process_multimodal calls it inside the branch of its input    *)
(* type and _text_to_speech only when enable_tts is set.                   *)
(***************************************************************************)
no_step == [called |-> FALSE, message |-> "", step |-> 0]

step_of(message, step) == [called |-> TRUE, message |-> message, step |-> step]

step_call(n, st) ==
    CASE n = "preprocess" -> step_of("Preprocessing input...", 1)
      [] n = "intent_classification" -> step_of("Understanding your query...", 2)
      [] n = "multimodal_processing" ->
            CASE st.input_type = "image" -> step_of("Analyzing image...", 3)
              [] st.input_type = "audio" -> step_of("Transcribing audio...", 3)
              [] st.input_type = "document" -> step_of("Processing document...", 3)
              [] OTHER -> no_step
      [] n = "research" -> step_of("Researching information...", 4)
      [] n = "compare" -> step_of("Comparing entities...", 4)
      [] n = "retrieve" -> step_of("Searching knowledge base...", 4)
      [] n = "summarize" -> step_of("Analyzing and summarizing...", 5)
      [] n = "critique" -> step_of("Evaluating response quality...", 6)
      [] n = "tts" -> IF st.enable_tts
                      THEN step_of("Generating audio...", 7)
                      ELSE no_step
      [] n = "finalize" -> step_of("Complete", 8)

(***************************************************************************)
(* _preprocess_input after its _update_step call: the input type from the  *)
(* file extension, then the processing metadata.                           *)
(***************************************************************************)
input_type_of(file_path) ==
    IF file_path # None /\ file_path # ""
    THEN CASE file_path \in ImageSuffixes -> "image"
           [] file_path \in AudioSuffixes -> "audio"
           [] file_path \in DocumentSuffixes -> "document"
           [] OTHER -> "unknown"
    ELSE "text"

preprocess_input(st) ==
    [st EXCEPT !.input_type = input_type_of(st.file_path),
               !.processing_steps = <<>>,
               !.current_step = 1,
               !.retry_count = 0]

(***************************************************************************)
(* IntentAgent: the intent is the text the language model answers with;    *)
(* the entities are the upper-case and title-case words of the query.      *)
(***************************************************************************)
extract_entities(query) ==
    IF query = "Compare TCP and UDP" THEN <<"Compare", "TCP", "UDP">> ELSE <<>>

intent_fallback == [intent |-> "general", confidence |-> 50, entities |-> <<>>]

IntentResults(query) ==
    {[raised |-> FALSE, intent |-> i, confidence |-> 80,
      entities |-> extract_entities(query)] : i \in Intents}
    \cup {[raised |-> FALSE] @@ intent_fallback}
    \cup {[raised |-> TRUE] @@ intent_fallback}

classify_intent(st, result) ==
    IF result.raised
    THEN [st EXCEPT !.intent = intent_fallback.intent,
                    !.confidence = intent_fallback.confidence,
                    !.entities = intent_fallback.entities]
    ELSE [st EXCEPT !.intent = result.intent,
                    !.confidence = result.confidence,
                    !.entities = result.entities]

(***************************************************************************)
(* _process_multimodal after its _update_step call.  The outcome `o` holds *)
(* what the collaborators returned: vision and ocr ("" when the call       *)
(* raised), the transcription or the document text with `raised` telling   *)
(* that the branch's try block raised, and the number of chunks added to   *)
(* the vector store.                                                       *)
(***************************************************************************)
combined_content(vision, ocr) ==
    CASE vision # "" /\ ocr # "" -> "Image Analysis + Extracted Text"
      [] vision # "" /\ ocr = "" -> "Image Analysis"
      [] vision = "" /\ ocr # "" -> "Extracted Text"
      [] OTHER -> ""

MultimodalOutcomes(input_type) ==
    CASE input_type = "image" ->
            {[raised |-> FALSE, vision |-> v, ocr |-> t, text |-> "", chunks |-> 0] :
                v \in {"image description", ""}, t \in {"image text", ""}}
      [] input_type = "audio" ->
            {[raised |-> r, vision |-> "", ocr |-> "", text |-> "spoken words",
              chunks |-> 0] : r \in BOOLEAN}
      [] input_type = "document" ->
            {[raised |-> FALSE, vision |-> "", ocr |-> "", text |-> "document text",
              chunks |-> c] : c \in 1..MaxDocs}
            \cup {[raised |-> TRUE, vision |-> "", ocr |-> "", text |-> "",
                   chunks |-> 0]}
      [] OTHER ->
            {[raised |-> FALSE, vision |-> "", ocr |-> "", text |-> "", chunks |-> 0]}

process_multimodal(st, o) ==
    CASE st.input_type = "image" ->
            [st EXCEPT !.vision_result = o.vision,
                       !.ocr_result = o.ocr,
                       !.research_content = combined_content(o.vision, o.ocr)]
      [] st.input_type = "audio" ->
            IF o.raised
            THEN [st EXCEPT !.transcription = "Failed to transcribe audio"]
            ELSE [st EXCEPT !.transcription = o.text, !.query = o.text]
      [] st.input_type = "document" ->
            IF o.raised
            THEN [st EXCEPT !.research_content = "Failed to process document"]
            ELSE [st EXCEPT !.research_content = o.text]
      [] OTHER -> st

(***************************************************************************)
(* VectorStore.add_documents and get_stats.  The count saturates at        *)
(* MaxDocs; get_stats reports 0 when the count query raises.               *)
(***************************************************************************)
add_documents(count, chunks) ==
    IF count + chunks > MaxDocs THEN MaxDocs ELSE count + chunks

get_stats(count, count_raises) ==
    [total_documents |-> IF count_raises THEN 0 ELSE count]

(***************************************************************************)
(* _research, _compare, _retrieve after their _update_step call.  `content`*)
(* is what the agent returned; `raised` tells that the call raised.        *)
(***************************************************************************)
ResearchResults ==
    {[raised |-> FALSE, content |-> "research text"],
     [raised |-> TRUE, content |-> ""]}

research(st, r) ==
    IF r.raised
    THEN [st EXCEPT !.research_content = "Research failed"]
    ELSE [st EXCEPT !.research_content = r.content]

CompareResults ==
    {[raised |-> FALSE, content |-> "comparison text"],
     [raised |-> TRUE, content |-> ""]}

compare(st, r) ==
    IF r.raised
    THEN [st EXCEPT !.comparison_result = "Comparison failed",
                    !.research_content = "Comparison failed"]
    ELSE [st EXCEPT !.comparison_result = r.content,
                    !.research_content = r.content]

RetrieveResults ==
    {[raised |-> FALSE, content |-> "retrieved text"],
     [raised |-> TRUE, content |-> ""]}

retrieve(st, r) ==
    IF r.raised
    THEN [st EXCEPT !.retrieved_content = "Retrieval failed",
                    !.research_content = "Retrieval failed"]
    ELSE [st EXCEPT !.retrieved_content = r.content,
                    !.research_content = r.content]

(***************************************************************************)
(* SummarizerAgent._process and _summarize.  The agent summarizes          *)
(* research_content, or comparison_result when that is empty.              *)
(***************************************************************************)
SummarizerResults(research_content, comparison_result) ==
    LET content == IF research_content # "" THEN research_content
                   ELSE comparison_result
    IN  IF content = ""
        THEN {[raised |-> FALSE, summary |-> "No content to summarize",
               key_points |-> <<>>]}
        ELSE {[raised |-> FALSE, summary |-> "summary text",
               key_points |-> <<"key point">>],
              [raised |-> TRUE, summary |-> "", key_points |-> <<>>]}

\* Mutant of summarize: the except branch without its fallback payload.
summarize_no_fallback(st, r) ==
    IF r.raised
    THEN st
    ELSE [st EXCEPT !.summary = r.summary, !.key_points = r.key_points]

summarize(st, r) ==
    IF r.raised
    THEN [st EXCEPT !.summary = "Summarization failed", !.key_points = <<>>]
    ELSE [st EXCEPT !.summary = r.summary, !.key_points = r.key_points]

(***************************************************************************)
(* CritiqueAgent._process and _critique.  Scores are in tenths: the agent  *)
(* asks for improvement below 6.0, answers 5.0 without asking for          *)
(* improvement when its own call fails, and the node falls back to 7.0.    *)
(***************************************************************************)
CritiqueResults ==
    {[raised |-> FALSE, quality_score |-> q, needs_improvement |-> (q < 60)] :
        q \in {45, 75}}
    \cup {[raised |-> FALSE, quality_score |-> 50, needs_improvement |-> FALSE],
          [raised |-> TRUE, quality_score |-> 0, needs_improvement |-> FALSE]}

\* Mutant of critique: the except branch asking for improvement.
critique_fallback_retries(st, r) ==
    IF r.raised
    THEN [st EXCEPT !.quality_score = 70, !.needs_improvement = TRUE]
    ELSE [st EXCEPT !.quality_score = r.quality_score,
                    !.needs_improvement = r.needs_improvement]

critique(st, r) ==
    IF r.raised
    THEN [st EXCEPT !.quality_score = 70, !.needs_improvement = FALSE]
    ELSE [st EXCEPT !.quality_score = r.quality_score,
                    !.needs_improvement = r.needs_improvement]

(***************************************************************************)
(* _text_to_speech after its _update_step call: the audio file the agent   *)
(* returned, "" when it returned none or raised.                           *)
(***************************************************************************)
TtsResults == {"/audio/tts_output.wav", ""}

\* Mutant of text_to_speech: the audio file also stored in final_result.
text_to_speech_writes_result(st, audio_file) ==
    IF st.enable_tts
    THEN [st EXCEPT !.audio_file = audio_file,
                    !.final_result = [audio |-> audio_file]]
    ELSE st

text_to_speech(st, audio_file) ==
    IF st.enable_tts THEN [st EXCEPT !.audio_file = audio_file] ELSE st

(***************************************************************************)
(* _finalize_result after its _update_step call.  word_count and           *)
(* processing_time, computed from the text and the clock, are left out.    *)
(***************************************************************************)
final_result_of(st) ==
    (IF st.audio_file # None /\ st.audio_file # ""
     THEN [audio |-> [generated |-> TRUE, file |-> st.audio_file]]
     ELSE <<>>)
    @@ (IF st.transcription # "" THEN [transcription |-> st.transcription] ELSE <<>>)
    @@ (IF st.ocr_result # "" THEN [extracted_text |-> st.ocr_result] ELSE <<>>)
    @@ (IF st.vision_result # "" THEN [vision_analysis |-> st.vision_result] ELSE <<>>)
    @@ [query |-> st.query,
        intent |-> st.intent,
        input_type |-> st.input_type,
        research |-> st.research_content,
        summary |-> st.summary,
        key_points |-> st.key_points,
        confidence |-> st.confidence,
        quality_score |-> st.quality_score,
        steps |-> st.processing_steps]

finalize_result(st) == [st EXCEPT !.final_result = final_result_of(st)]

(***************************************************************************)
(* The routing functions.  _handle_critique_result also assigns to the     *)
(* state it is given, so it yields the label and the state.                *)
(***************************************************************************)
MultimodalTypes == {"image", "audio", "document"}

RetrievalIntents == {"summarize", "research", "explain", "analyze"}

\* Mutants of route_after_intent: the intent looked at before the input
\* type; "analyze" missing from the retrieval intents; the node's name in
\* place of the edge's label; a store of one document taken for empty.
route_after_intent_intent_first(st, stats) ==
    IF st.intent = "compare" THEN "compare"
    ELSE IF st.input_type \in MultimodalTypes THEN "multimodal"
    ELSE IF st.intent \in RetrievalIntents /\ stats.total_documents > 0
         THEN "retrieve"
    ELSE "research"

route_after_intent_no_analyze(st, stats) ==
    IF st.input_type \in MultimodalTypes THEN "multimodal"
    ELSE IF st.intent = "compare" THEN "compare"
    ELSE IF st.intent \in {"summarize", "research", "explain"}
            /\ stats.total_documents > 0
         THEN "retrieve"
    ELSE "research"

route_after_intent_node_name(st, stats) ==
    IF st.input_type \in MultimodalTypes THEN "multimodal_processing"
    ELSE IF st.intent = "compare" THEN "compare"
    ELSE IF st.intent \in RetrievalIntents /\ stats.total_documents > 0
         THEN "retrieve"
    ELSE "research"

route_after_intent_more_than_one(st, stats) ==
    IF st.input_type \in MultimodalTypes THEN "multimodal"
    ELSE IF st.intent = "compare" THEN "compare"
    ELSE IF st.intent \in RetrievalIntents /\ stats.total_documents > 1
         THEN "retrieve"
    ELSE "research"

\* Mutant of route_after_intent: the intent "summarize" sent straight to
\* the summarize node, an edge the graph declares.
route_after_intent_summarize_direct(st, stats) ==
    IF st.input_type \in MultimodalTypes THEN "multimodal"
    ELSE IF st.intent = "compare" THEN "compare"
    ELSE IF st.intent = "summarize" THEN "summarize"
    ELSE IF st.intent \in RetrievalIntents /\ stats.total_documents > 0
         THEN "retrieve"
    ELSE "research"

route_after_intent(st, stats) ==
    CASE st.input_type \in MultimodalTypes -> "multimodal"
      [] st.input_type \notin MultimodalTypes /\ st.intent = "compare" -> "compare"
      [] st.input_type \notin MultimodalTypes /\ st.intent # "compare"
         /\ st.intent \in RetrievalIntents ->
            IF stats.total_documents > 0 THEN "retrieve" ELSE "research"
      [] OTHER -> "research"

\* Mutant of should_critique: one critique attempt in place of two.
should_critique_limit_one(st) ==
    IF st.retry_count < 1 THEN "critique"
    ELSE IF st.enable_tts THEN "tts"
    ELSE "finalize"

should_critique(st) ==
    IF st.retry_count < CritiqueAttemptLimit THEN "critique"
    ELSE IF st.enable_tts THEN "tts"
    ELSE "finalize"

\* Mutants of handle_critique_result: the critique-attempt limit in place of
\* the retry limit; no increment of retry_count; the node's name in place of
\* the edge's label; an increment on every branch.
handle_critique_result_loose(st) ==
    IF st.needs_improvement /\ st.retry_count < CritiqueAttemptLimit
    THEN [label |-> "retry", state |-> [st EXCEPT !.retry_count = @ + 1]]
    ELSE IF st.enable_tts THEN [label |-> "tts", state |-> st]
    ELSE [label |-> "finalize", state |-> st]

handle_critique_result_no_increment(st) ==
    IF st.needs_improvement /\ st.retry_count < RetryLimit
    THEN [label |-> "retry", state |-> st]
    ELSE IF st.enable_tts THEN [label |-> "tts", state |-> st]
    ELSE [label |-> "finalize", state |-> st]

handle_critique_result_node_name(st) ==
    IF st.needs_improvement /\ st.retry_count < RetryLimit
    THEN [label |-> "research", state |-> [st EXCEPT !.retry_count = @ + 1]]
    ELSE IF st.enable_tts THEN [label |-> "tts", state |-> st]
    ELSE [label |-> "finalize", state |-> st]

handle_critique_result_always_increments(st) ==
    IF st.needs_improvement /\ st.retry_count < RetryLimit
    THEN [label |-> "retry", state |-> [st EXCEPT !.retry_count = @ + 1]]
    ELSE IF st.enable_tts
         THEN [label |-> "tts", state |-> [st EXCEPT !.retry_count = @ + 1]]
    ELSE [label |-> "finalize", state |-> [st EXCEPT !.retry_count = @ + 1]]

\* Mutant of handle_critique_result: the audio node chosen whatever
\* enable_tts says.
handle_critique_result_always_tts(st) ==
    IF st.needs_improvement /\ st.retry_count < RetryLimit
    THEN [label |-> "retry", state |-> [st EXCEPT !.retry_count = @ + 1]]
    ELSE [label |-> "tts", state |-> st]

handle_critique_result(st) ==
    IF st.needs_improvement /\ st.retry_count < RetryLimit
    THEN [label |-> "retry", state |-> [st EXCEPT !.retry_count = @ + 1]]
    ELSE IF st.enable_tts THEN [label |-> "tts", state |-> st]
    ELSE [label |-> "finalize", state |-> st]

should_finalize(st) == "finalize"

Requests == {"r1", "r2"}

idle_call == [state |-> initial_state("", "", FALSE, None),
              node |-> "idle", at |-> "step"]

AgentNames == {"query_handler", "research_agent", "summarizer_agent", "tts_agent"}

no_mcp_call == [pc |-> "idle", stage |-> 0, session_id |-> "",
                enable_tts |-> FALSE, failure |-> None, started |-> 0]

\* No stream open; no execute call in flight; no call of DeveloperMode yet;
\* no chunk_text call yet.
no_stream == [pc |-> "idle", session_id |-> None, session_data |-> "none",
              held_status |-> None]

no_execute == [pc |-> "idle", agent |-> None]

no_debug_operation == [op |-> None, session_id |-> None]

no_chunking == [pc |-> "idle", text |-> <<>>, chunk_size |-> 0, overlap |-> 0,
                start |-> 0, chunks |-> <<>>]

no_operation == [op |-> None, session_id |-> None, result |-> [returned |-> None]]

Init ==
    /\ state = initial_state("", "", FALSE, None)
    /\ node = "idle"
    /\ at = "step"
    /\ sessions = <<>>
    /\ total_documents \in 0..MaxDocs
    /\ stats_report = -1
    /\ path = <<>>
    /\ calls = [r \in Requests |-> idle_call]
    /\ mcp_sessions = <<>>
    /\ mcp_call = no_mcp_call
    /\ agent_status = [a \in AgentNames |-> "idle"]
    /\ now = 0
    /\ mcp_last = no_operation
    /\ stream = no_stream
    /\ executes = [r \in Requests |-> no_execute]
    /\ debug_enabled = FALSE
    /\ session_logs = <<>>
    /\ global_logs = <<>>
    /\ debug_last = no_debug_operation
    /\ chunker = no_chunking

process_query ==
    /\ node \in {"idle", "returned", "raised"}
    /\ \E query \in Queries, session_id \in SessionIds,
          enable_tts \in BOOLEAN, file_path \in FilePaths :
          /\ sessions' = [s \in DOMAIN sessions \cup {session_id} |->
                            IF s = session_id THEN new_session ELSE sessions[s]]
          /\ state' = initial_state(query, session_id, enable_tts, file_path)
    /\ node' = "preprocess"
    /\ at' = "step"
    /\ path' = <<>>
    /\ stats_report' = -1
    /\ UNCHANGED <<total_documents, concurrent_vars, pipeline_vars, stream, service_vars>>

(***************************************************************************)
(* A handler's _update_step call.                                          *)
(***************************************************************************)
update_step ==
    /\ InFlight
    /\ at = "step"
    /\ LET c == step_call(node, state)
       IN  IF c.called
           THEN /\ state' = update_step_state(state, c.message, c.step)
                /\ sessions' = update_step_sessions(sessions, state, c.message, c.step)
           ELSE UNCHANGED <<state, sessions>>
    /\ at' = "work"
    /\ UNCHANGED <<node, total_documents, stats_report, path>>
    /\ UNCHANGED <<concurrent_vars, pipeline_vars, stream, service_vars>>

(***************************************************************************)
(* The bodies of the node handlers.                                        *)
(***************************************************************************)
node_ran == /\ at' = "route"
            /\ path' = Append(path, node)
            /\ UNCHANGED <<node, sessions, stats_report>>
            /\ UNCHANGED <<concurrent_vars, pipeline_vars, stream, service_vars>>

do_preprocess_input ==
    /\ node = "preprocess" /\ at = "work"
    /\ state' = preprocess_input(state)
    /\ node_ran
    /\ UNCHANGED total_documents

do_classify_intent ==
    /\ node = "intent_classification" /\ at = "work"
    /\ \E result \in IntentResults(state.query) :
          state' = classify_intent(state, result)
    /\ node_ran
    /\ UNCHANGED total_documents

do_process_multimodal ==
    /\ node = "multimodal_processing" /\ at = "work"
    /\ \E o \in MultimodalOutcomes(state.input_type) :
          /\ state' = process_multimodal(state, o)
          /\ total_documents' = add_documents(total_documents, o.chunks)
    /\ node_ran

do_research ==
    /\ node = "research" /\ at = "work"
    /\ \E r \in ResearchResults : state' = research(state, r)
    /\ node_ran
    /\ UNCHANGED total_documents

do_compare ==
    /\ node = "compare" /\ at = "work"
    /\ \E r \in CompareResults : state' = compare(state, r)
    /\ node_ran
    /\ UNCHANGED total_documents

do_retrieve ==
    /\ node = "retrieve" /\ at = "work"
    /\ \E r \in RetrieveResults : state' = retrieve(state, r)
    /\ node_ran
    /\ UNCHANGED total_documents

do_summarize ==
    /\ node = "summarize" /\ at = "work"
    /\ \E r \in SummarizerResults(state.research_content, state.comparison_result) :
          state' = summarize(state, r)
    /\ node_ran
    /\ UNCHANGED total_documents

do_critique ==
    /\ node = "critique" /\ at = "work"
    /\ \E r \in CritiqueResults : state' = critique(state, r)
    /\ node_ran
    /\ UNCHANGED total_documents

do_text_to_speech ==
    /\ node = "tts" /\ at = "work"
    /\ \E audio_file \in TtsResults : state' = text_to_speech(state, audio_file)
    /\ node_ran
    /\ UNCHANGED total_documents

do_finalize_result ==
    /\ node = "finalize" /\ at = "work"
    /\ state' = finalize_result(state)
    /\ node_ran
    /\ UNCHANGED total_documents

(***************************************************************************)
(* The engine follows the edge leaving the node.  A label that is no key   *)
(* of the node's edge map makes the engine raise; process_query records    *)
(* the error in the registry and raises to its caller.                     *)
(***************************************************************************)
session_error(sess, session_id) ==
    [sess EXCEPT ![session_id] =
        [status |-> "error", error |-> "workflow error"] @@ @]

follow(edges, label) ==
    /\ IF label \in DOMAIN edges
       THEN /\ node' = edges[label]
            /\ sessions' = sessions
       ELSE /\ node' = "raised"
            /\ sessions' = session_error(sessions, state.session_id)
    /\ UNCHANGED <<concurrent_vars, pipeline_vars, stream, service_vars>>

add_edge ==
    /\ node \in DOMAIN FixedEdges /\ at = "route"
    /\ node' = FixedEdges[node]
    /\ at' = "step"
    /\ UNCHANGED <<state, sessions, total_documents, stats_report, path>>
    /\ UNCHANGED <<concurrent_vars, pipeline_vars, stream, service_vars>>

do_route_after_intent ==
    /\ node = "intent_classification" /\ at = "route"
    /\ \E count_raises \in BOOLEAN :
          LET stats == get_stats(total_documents, count_raises)
              asked == state.input_type \notin MultimodalTypes
                       /\ state.intent # "compare"
                       /\ state.intent \in RetrievalIntents
          IN  /\ follow(IntentEdges, route_after_intent(state, stats))
              /\ stats_report' = IF asked THEN stats.total_documents ELSE stats_report
    /\ at' = "step"
    /\ UNCHANGED <<state, total_documents, path>>

do_should_critique ==
    /\ node = "summarize" /\ at = "route"
    /\ follow(SummarizeEdges, should_critique(state))
    /\ at' = "step"
    /\ UNCHANGED <<state, total_documents, stats_report, path>>

do_handle_critique_result ==
    /\ node = "critique" /\ at = "route"
    /\ LET r == handle_critique_result(state)
       IN  /\ state' = r.state
           /\ follow(CritiqueEdges, r.label)
    /\ at' = "step"
    /\ UNCHANGED <<total_documents, stats_report, path>>

do_should_finalize ==
    /\ node = "tts" /\ at = "route"
    /\ follow(TtsEdges, should_finalize(state))
    /\ at' = "step"
    /\ UNCHANGED <<state, total_documents, stats_report, path>>

(***************************************************************************)
(* process_query after the workflow returned its final state.              *)
(***************************************************************************)
session_completed(sess, session_id, result) ==
    [sess EXCEPT ![session_id] =
        [status |-> "completed", result |-> result] @@ @]

process_query_return ==
    /\ node = END
    /\ sessions' = session_completed(sessions, state.session_id, state.final_result)
    /\ node' = "returned"
    /\ UNCHANGED <<state, at, total_documents, stats_report, path>>
    /\ UNCHANGED <<concurrent_vars, pipeline_vars, stream, service_vars>>

(***************************************************************************)
(* The /documents/add endpoint of main.py adds the chunks of a document to *)
(* the vector store the engine shares with every session.                  *)
(***************************************************************************)
add_document_to_vectorstore ==
    /\ total_documents < MaxDocs
    /\ \E chunks \in 1..MaxDocs :
          total_documents' = add_documents(total_documents, chunks)
    /\ UNCHANGED <<state, node, at, sessions, stats_report, path>>
    /\ UNCHANGED <<concurrent_vars, pipeline_vars, stream, service_vars>>

Traverse ==
    \/ update_step
    \/ do_preprocess_input
    \/ do_classify_intent
    \/ do_process_multimodal
    \/ do_research
    \/ do_compare
    \/ do_retrieve
    \/ do_summarize
    \/ do_critique
    \/ do_text_to_speech
    \/ do_finalize_result
    \/ add_edge
    \/ do_route_after_intent
    \/ do_should_critique
    \/ do_handle_critique_result
    \/ do_should_finalize
    \/ process_query_return

Next ==
    \/ process_query
    \/ Traverse
    \/ add_document_to_vectorstore

Spec == Init /\ [][Next]_vars

FairSpec == Spec /\ WF_vars(Traverse)

(***************************************************************************)
(* The sequential pipeline of backend/agents/mcp.py (class                 *)
(* MultiAgentControlPlane) over the agents of backend/agents/base_agent.py.*)
(* process_query is at one of the positions                                *)
(*   step    : about to call _update_session_step for its stage,           *)
(*   call    : about to call the stage's agent.execute,                    *)
(*   run     : inside execute, awaiting the agent's process(),             *)
(*   compile : about to build final_result and mark the session completed, *)
(*   except  : in the except branch, about to record the error,            *)
(* or idle / returned / raised.  cancel_session, cleanup_old_sessions and  *)
(* the clock run between any two of these steps.  A key left out of a      *)
(* session's dictionary is the value None for error and the empty         *)
(* sequence for result, which holds the result once there is one.          *)
(* `started` counts the calls of process_query made so far.                *)
(***************************************************************************)
PipelineSessionIds == {"s1", "s2"}

MaxCalls == 2

SessionTimeout == 300

LastStage == 5

\* The readings of the clock: two before the timeout has passed since the
\* first, two after.
Times == {0, 1, SessionTimeout, SessionTimeout + 1}

StageAgent ==
    <<"query_handler", "research_agent", "summarizer_agent", "tts_agent">>

StageMessage ==
    <<"Understanding your query...", "Researching information...",
      "Analyzing and summarizing...", "Generating audio...", "Complete">>

mcp_new_session(t) ==
    [status |-> "processing", start_time |-> t, steps |-> <<>>,
     current_step |-> 0, result |-> <<>>, error |-> None]

update_session_step(sess, session_id, message, step) ==
    IF session_id \in DOMAIN sess
    THEN [sess EXCEPT ![session_id] =
            [@ EXCEPT !.steps = Append(@, [step |-> step,
                                          message |-> message,
                                          status |-> IF step < LastStage
                                                     THEN "active"
                                                     ELSE "completed"]),
                      !.current_step = step]]
    ELSE sess

\* BaseAgent.execute once process() has returned or raised: the status it
\* assigns, and whether the exception leaves execute.
execute(process_raised) ==
    IF process_raised
    THEN [status |-> "error", raised |-> TRUE]
    ELSE [status |-> "completed", raised |-> FALSE]

next_stage(stage, enable_tts) ==
    IF stage = 3 /\ ~enable_tts THEN LastStage ELSE stage + 1

mcp_final_result(sess, call) ==
    [steps |-> sess[call.session_id].steps, audio |-> call.enable_tts]

\* Mutant of cancel_session: an entry made for a session_id the registry
\* does not hold.
cancel_session_creates_entry(sess, session_id) ==
    [s \in DOMAIN sess \cup {session_id} |->
        IF s \in DOMAIN sess
        THEN IF s = session_id THEN [sess[s] EXCEPT !.status = "cancelled"]
             ELSE sess[s]
        ELSE [mcp_new_session(0) EXCEPT !.status = "cancelled"]]

\* Mutant of cancel_session: the status spelled "canceled".
cancel_session_canceled(sess, session_id) ==
    IF session_id \in DOMAIN sess
    THEN [sess EXCEPT ![session_id].status = "canceled"]
    ELSE sess

cancel_session(sess, session_id) ==
    IF session_id \in DOMAIN sess
    THEN [sess EXCEPT ![session_id].status = "cancelled"]
    ELSE sess

\* What cancel_session and get_session_status return.
not_found == [error |-> "Session not found"]

cancel_session_reply(sess, session_id) ==
    IF session_id \in DOMAIN sess
    THEN [message |-> "Session cancelled"]
    ELSE not_found

get_session_status(sess, session_id) ==
    IF session_id \notin DOMAIN sess THEN not_found ELSE sess[session_id]

\* Mutant of cleanup_old_sessions: an entry as old as the timeout expires.
cleanup_old_sessions_inclusive(sess, current_time) ==
    LET expired_sessions ==
            {s \in DOMAIN sess : current_time - sess[s].start_time >= SessionTimeout}
    IN  [s \in DOMAIN sess \ expired_sessions |-> sess[s]]

cleanup_old_sessions(sess, current_time) ==
    LET expired_sessions ==
            {s \in DOMAIN sess : current_time - sess[s].start_time > SessionTimeout}
    IN  [s \in DOMAIN sess \ expired_sessions |-> sess[s]]

\* session_data of stream_agent_progress refers to the entry it read: once
\* the registry replaces or deletes that entry, the generator keeps the old
\* dictionary, which nothing writes any more.
detach(st, sess, gone) ==
    IF st.session_data = "registry" /\ st.session_id \in gone
    THEN [st EXCEPT !.session_data = "detached",
                    !.held_status = sess[st.session_id].status]
    ELSE st

graph_unchanged ==
    UNCHANGED <<graph_vars, sessions, total_documents, concurrent_vars, service_vars>>

mcp_process_query ==
    /\ mcp_call.pc \in {"idle", "returned", "raised"}
    /\ mcp_call.started < MaxCalls
    /\ \E session_id \in PipelineSessionIds, enable_tts \in BOOLEAN :
          /\ mcp_sessions' =
                [s \in DOMAIN mcp_sessions \cup {session_id} |->
                    IF s = session_id THEN mcp_new_session(now)
                    ELSE mcp_sessions[s]]
          /\ mcp_call' = [pc |-> "step", stage |-> 1, session_id |-> session_id,
                          enable_tts |-> enable_tts, failure |-> None,
                          started |-> mcp_call.started + 1]
          /\ stream' = detach(stream, mcp_sessions, {session_id})
    /\ UNCHANGED <<agent_status, now>>
    /\ mcp_last' = no_operation
    /\ graph_unchanged

mcp_update_session_step ==
    /\ mcp_call.pc = "step"
    /\ mcp_sessions' = update_session_step(mcp_sessions, mcp_call.session_id,
                                           StageMessage[mcp_call.stage],
                                           mcp_call.stage)
    /\ mcp_call' = [mcp_call EXCEPT !.pc = IF mcp_call.stage = LastStage
                                           THEN "compile" ELSE "call"]
    /\ UNCHANGED <<agent_status, now>>
    /\ mcp_last' = no_operation
    /\ UNCHANGED stream
    /\ graph_unchanged

mcp_execute_begin ==
    /\ mcp_call.pc = "call"
    /\ agent_status' = [agent_status EXCEPT ![StageAgent[mcp_call.stage]] = "running"]
    /\ mcp_call' = [mcp_call EXCEPT !.pc = "run"]
    /\ UNCHANGED <<mcp_sessions, now>>
    /\ mcp_last' = no_operation
    /\ UNCHANGED stream
    /\ graph_unchanged

mcp_execute_end ==
    /\ mcp_call.pc = "run"
    /\ \E process_raised \in BOOLEAN :
          LET r == execute(process_raised)
          IN  /\ agent_status' =
                    [agent_status EXCEPT ![StageAgent[mcp_call.stage]] = r.status]
              /\ mcp_call' =
                    IF r.raised
                    THEN [mcp_call EXCEPT !.pc = "except", !.failure = "StageFailure"]
                    ELSE [mcp_call EXCEPT !.pc = "step",
                             !.stage = next_stage(@, mcp_call.enable_tts)]
    /\ UNCHANGED <<mcp_sessions, now>>
    /\ mcp_last' = no_operation
    /\ UNCHANGED stream
    /\ graph_unchanged

mcp_compile ==
    /\ mcp_call.pc = "compile"
    /\ IF mcp_call.session_id \in DOMAIN mcp_sessions
       THEN /\ mcp_sessions' =
                  [mcp_sessions EXCEPT ![mcp_call.session_id] =
                      [@ EXCEPT !.status = "completed",
                                !.result = <<mcp_final_result(mcp_sessions, mcp_call)>>]]
            /\ mcp_call' = [mcp_call EXCEPT !.pc = "returned"]
       ELSE /\ mcp_call' = [mcp_call EXCEPT !.pc = "except", !.failure = "KeyError"]
            /\ UNCHANGED mcp_sessions
    /\ UNCHANGED <<agent_status, now>>
    /\ mcp_last' = no_operation
    /\ UNCHANGED stream
    /\ graph_unchanged

\* Mutant of mcp_except: the handler clearing the steps of the entry.
mcp_except_rollback ==
    /\ mcp_call.pc = "except"
    /\ IF mcp_call.session_id \in DOMAIN mcp_sessions
       THEN /\ mcp_sessions' =
                  [mcp_sessions EXCEPT ![mcp_call.session_id] =
                      [@ EXCEPT !.status = "error", !.error = mcp_call.failure,
                                !.steps = <<>>, !.current_step = 0]]
            /\ mcp_call' = [mcp_call EXCEPT !.pc = "raised"]
       ELSE /\ mcp_call' = [mcp_call EXCEPT !.pc = "raised", !.failure = "KeyError"]
            /\ UNCHANGED mcp_sessions
    /\ UNCHANGED <<agent_status, now>>
    /\ mcp_last' = no_operation
    /\ UNCHANGED stream
    /\ graph_unchanged

mcp_except ==
    /\ mcp_call.pc = "except"
    /\ IF mcp_call.session_id \in DOMAIN mcp_sessions
       THEN /\ mcp_sessions' =
                  [mcp_sessions EXCEPT ![mcp_call.session_id] =
                      [@ EXCEPT !.status = "error", !.error = mcp_call.failure]]
            /\ mcp_call' = [mcp_call EXCEPT !.pc = "raised"]
       ELSE /\ mcp_call' = [mcp_call EXCEPT !.pc = "raised", !.failure = "KeyError"]
            /\ UNCHANGED mcp_sessions
    /\ UNCHANGED <<agent_status, now>>
    /\ mcp_last' = no_operation
    /\ UNCHANGED stream
    /\ graph_unchanged

mcp_cancel_session ==
    /\ \E session_id \in PipelineSessionIds :
          /\ mcp_sessions' = cancel_session(mcp_sessions, session_id)
          /\ mcp_last' = [op |-> "cancel_session", session_id |-> session_id,
                          result |-> cancel_session_reply(mcp_sessions, session_id)]
    /\ UNCHANGED <<mcp_call, agent_status, now>>
    /\ UNCHANGED stream
    /\ graph_unchanged

mcp_get_session_status ==
    /\ \E session_id \in PipelineSessionIds :
          mcp_last' = [op |-> "get_session_status", session_id |-> session_id,
                       result |-> get_session_status(mcp_sessions, session_id)]
    /\ UNCHANGED <<mcp_sessions, mcp_call, agent_status, now>>
    /\ UNCHANGED stream
    /\ graph_unchanged

mcp_cleanup_old_sessions ==
    /\ mcp_sessions' = cleanup_old_sessions(mcp_sessions, now)
    /\ mcp_last' = [op |-> "cleanup_old_sessions", session_id |-> None,
                    result |-> [returned |-> None]]
    /\ stream' = detach(stream, mcp_sessions,
                         DOMAIN mcp_sessions
                             \ DOMAIN cleanup_old_sessions(mcp_sessions, now))
    /\ UNCHANGED <<mcp_call, agent_status, now>>
    /\ graph_unchanged

tick ==
    /\ \E t \in Times :
          /\ t > now
          /\ now' = t
    /\ UNCHANGED <<mcp_sessions, mcp_call, agent_status>>
    /\ mcp_last' = no_operation
    /\ UNCHANGED stream
    /\ graph_unchanged

PipelineNext ==
    \/ mcp_process_query
    \/ mcp_update_session_step
    \/ mcp_execute_begin
    \/ mcp_execute_end
    \/ mcp_compile
    \/ mcp_except
    \/ mcp_cancel_session
    \/ mcp_get_session_status
    \/ mcp_cleanup_old_sessions
    \/ tick

PipelineInit == Init /\ total_documents = 0

PipelineSpec == PipelineInit /\ [][PipelineNext]_vars

(***************************************************************************)
(* StreamingService.stream_agent_progress on the pipeline's registry.  The *)
(* generator is suspended at its yield and in its sleep, where the calls   *)
(* of the pipeline run; one iteration is the while test with the read of   *)
(* the entry and the yield (stream_poll), then the test of the status      *)
(* with the sleep (stream_resume).                                         *)
(***************************************************************************)
StreamEndStatuses == {"completed", "error"}

\* session_data.get("status") in ["completed", "error"]
stream_status_ends(status) == status \in StreamEndStatuses

stream_unchanged ==
    UNCHANGED <<graph_vars, sessions, total_documents, concurrent_vars,
                pipeline_vars, service_vars>>

stream_agent_progress ==
    /\ stream.pc = "idle"
    /\ \E session_id \in PipelineSessionIds :
          stream' = [no_stream EXCEPT !.pc = "poll", !.session_id = session_id]
    /\ stream_unchanged

stream_poll ==
    /\ stream.pc = "poll"
    /\ stream' = IF stream.session_id \in DOMAIN mcp_sessions
                 THEN [stream EXCEPT !.pc = "yielded", !.session_data = "registry"]
                 ELSE [stream EXCEPT !.pc = "ended"]
    /\ stream_unchanged

stream_resume ==
    /\ stream.pc = "yielded"
    /\ LET status == IF stream.session_data = "registry"
                     THEN mcp_sessions[stream.session_id].status
                     ELSE stream.held_status
       IN  stream' = [stream EXCEPT
                         !.pc = IF stream_status_ends(status) THEN "ended" ELSE "poll",
                         !.session_data = "none",
                         !.held_status = None]
    /\ stream_unchanged

StreamNext ==
    \/ mcp_process_query
    \/ mcp_update_session_step
    \/ mcp_execute_begin
    \/ mcp_execute_end
    \/ mcp_compile
    \/ mcp_except
    \/ mcp_cancel_session
    \/ mcp_cleanup_old_sessions
    \/ tick
    \/ stream_agent_progress
    \/ stream_poll
    \/ stream_resume

StreamSpec == PipelineInit /\ [][StreamNext]_vars

\* The event loop runs every coroutine that is ready: the generator, which
\* the response keeps consuming, and the process_query call.
StreamRuns == stream_poll \/ stream_resume

PipelineRuns ==
    \/ mcp_update_session_step
    \/ mcp_execute_begin
    \/ mcp_execute_end
    \/ mcp_compile
    \/ mcp_except

FairStreamSpec == StreamSpec /\ WF_vars(StreamRuns) /\ WF_vars(PipelineRuns)

(***************************************************************************)
(* BaseAgent.execute called by concurrent sessions.  The agents are built  *)
(* once and handed to the control plane, so every process_query call runs  *)
(* execute on the same instances; execute is suspended at its await of     *)
(* process(), where the execute calls of other sessions run.               *)
(***************************************************************************)
AgentStatuses == {"idle", "running", "completed", "error"}

execute_unchanged ==
    UNCHANGED <<graph_vars, sessions, total_documents, concurrent_vars,
                mcp_sessions, mcp_call, now, mcp_last, stream,
                debug_enabled, session_logs, global_logs, debug_last, chunker>>

execute_begin ==
    /\ \E r \in Requests, agent \in AgentNames :
          /\ executes[r].pc = "idle"
          /\ agent_status' = [agent_status EXCEPT ![agent] = "running"]
          /\ executes' = [executes EXCEPT ![r] = [pc |-> "process", agent |-> agent]]
    /\ execute_unchanged

execute_end ==
    /\ \E r \in Requests, process_raised \in BOOLEAN :
          /\ executes[r].pc = "process"
          /\ agent_status' =
                [agent_status EXCEPT ![executes[r].agent] = execute(process_raised).status]
          /\ executes' = [executes EXCEPT ![r] = no_execute]
    /\ execute_unchanged

ExecuteNext ==
    \/ execute_begin
    \/ execute_end

ExecuteSpec == PipelineInit /\ [][ExecuteNext]_vars

(***************************************************************************)
(* DeveloperMode (debug/developer_mode.py) behind POST /debug/toggle, and  *)
(* log_agent_execution.  The files the class writes are left out.          *)
(***************************************************************************)
DebugSessionIds == {"s1", "s2"}

MaxLogs == 3

max_logs_per_session == 100

\* The last k elements of a list: logs[-k:].
last_elements(logs, k) ==
    IF Len(logs) <= k THEN logs ELSE SubSeq(logs, Len(logs) - k + 1, Len(logs))

enable_debug(logs, session_id) ==
    [enabled |-> TRUE,
     logs |-> [s \in DOMAIN logs \cup {session_id} |->
                 IF s = session_id THEN <<>> ELSE logs[s]]]

disable_debug(logs, session_id) ==
    [enabled |-> FALSE, logs |-> logs]

add_log(logs, session_id, log_entry) ==
    LET appended ==
            [s \in DOMAIN logs \cup {session_id} |->
                IF s = session_id
                THEN Append(IF s \in DOMAIN logs THEN logs[s] ELSE <<>>, log_entry)
                ELSE logs[s]]
    IN  [appended EXCEPT ![session_id] = last_elements(@, max_logs_per_session)]

\* Whether log_agent_execution records an entry for session_id.
records(enabled, session_id) == enabled

debug_unchanged ==
    UNCHANGED <<graph_vars, sessions, total_documents, concurrent_vars,
                pipeline_vars, stream, executes, chunker>>

toggle_debug ==
    /\ \E session_id \in DebugSessionIds, enable \in BOOLEAN :
          LET r == IF enable THEN enable_debug(session_logs, session_id)
                   ELSE disable_debug(session_logs, session_id)
          IN  /\ debug_enabled' = r.enabled
              /\ session_logs' = r.logs
              /\ debug_last' = [op |-> "toggle_debug", session_id |-> session_id]
    /\ UNCHANGED global_logs
    /\ debug_unchanged

log_agent_execution ==
    /\ Len(global_logs) < MaxLogs
    /\ \E session_id \in DebugSessionIds, agent_name \in AgentNames :
          LET log_entry == [session_id |-> session_id, agent_name |-> agent_name,
                            type |-> "agent_execution"]
          IN  /\ IF records(debug_enabled, session_id)
                 THEN /\ session_logs' = add_log(session_logs, session_id, log_entry)
                      /\ global_logs' = Append(global_logs, log_entry)
                 ELSE UNCHANGED <<session_logs, global_logs>>
              /\ debug_last' = [op |-> "log_agent_execution", session_id |-> session_id]
    /\ UNCHANGED debug_enabled
    /\ debug_unchanged

DebugNext ==
    \/ toggle_debug
    \/ log_agent_execution

DebugSpec == PipelineInit /\ [][DebugNext]_vars

(***************************************************************************)
(* DocumentProcessor.chunk_text (agents/multimodal_agents.py), called by   *)
(* POST /documents/add with the chunk_size and overlap of the request.  A  *)
(* text is a sequence of characters; indices are Python's, from 0, and a   *)
(* negative index counts from the end.                                     *)
(***************************************************************************)
MaxTextLen == 4

MaxChunkSize == 3

MaxOverlap == 3

MaxChunks == 5

Characters == {"a", ".", " "}

SentenceEndings == {".", "!", "?"}

SentenceWindow == 200

Texts == UNION {[1..n -> Characters] : n \in 0..MaxTextLen}

Max(a, b) == IF a >= b THEN a ELSE b

\* text[i]: defined for -len(text) <= i < len(text), IndexError otherwise.
index_ok(text, i) == -Len(text) <= i /\ i < Len(text)

char_at(text, i) == IF i >= 0 THEN text[i + 1] ELSE text[Len(text) + i + 1]

\* text[start:end]
slice(text, start, end) ==
    LET clamp(i) == IF i < 0 THEN Max(Len(text) + i, 0)
                    ELSE IF i > Len(text) THEN Len(text) ELSE i
    IN  SubSeq(text, clamp(start) + 1, clamp(end))

RECURSIVE lstrip(_)
lstrip(text) ==
    IF text # <<>> /\ Head(text) = " " THEN lstrip(Tail(text)) ELSE text

RECURSIVE rstrip(_)
rstrip(text) ==
    IF text # <<>> /\ text[Len(text)] = " "
    THEN rstrip(SubSeq(text, 1, Len(text) - 1))
    ELSE text

strip(text) == rstrip(lstrip(text))

\* The for loop over range(end, max(start + chunk_size - 200, start), -1)
\* from index i down: the end it leaves, or the IndexError of text[i].
RECURSIVE sentence_end(_, _, _, _)
sentence_end(text, i, stop, end) ==
    IF i <= stop THEN [raised |-> FALSE, end |-> end]
    ELSE IF ~index_ok(text, i) THEN [raised |-> TRUE, end |-> end]
    ELSE IF char_at(text, i) \in SentenceEndings THEN [raised |-> FALSE, end |-> i + 1]
    ELSE sentence_end(text, i - 1, stop, end)

\* One iteration of the while loop, entered with start < len(text).
chunk_text_loop(c) ==
    LET end0 == c.start + c.chunk_size
        found == IF end0 < Len(c.text)
                 THEN sentence_end(c.text, end0,
                                   Max(c.start + c.chunk_size - SentenceWindow, c.start),
                                   end0)
                 ELSE [raised |-> FALSE, end |-> end0]
        chunk == strip(slice(c.text, c.start, found.end))
        start == found.end - c.overlap
    IN  IF found.raised THEN [c EXCEPT !.pc = "raised"]
        ELSE [c EXCEPT !.chunks = IF chunk # <<>> THEN Append(@, chunk) ELSE @,
                       !.start = start,
                       !.pc = IF start >= Len(c.text) THEN "returned" ELSE "while"]

chunk_unchanged ==
    UNCHANGED <<graph_vars, sessions, total_documents, concurrent_vars,
                pipeline_vars, stream, executes, debug_enabled, session_logs,
                global_logs, debug_last>>

chunk_text ==
    /\ chunker.pc = "idle"
    /\ \E text \in Texts, chunk_size \in 1..MaxChunkSize, overlap \in 0..MaxOverlap :
          chunker' = IF Len(text) <= chunk_size
                     THEN [pc |-> "returned", text |-> text, chunk_size |-> chunk_size,
                           overlap |-> overlap, start |-> 0, chunks |-> <<text>>]
                     ELSE [pc |-> "while", text |-> text, chunk_size |-> chunk_size,
                           overlap |-> overlap, start |-> 0, chunks |-> <<>>]
    /\ chunk_unchanged

chunk_text_while ==
    /\ chunker.pc = "while"
    /\ Len(chunker.chunks) < MaxChunks
    /\ chunker' = IF chunker.start < Len(chunker.text)
                  THEN chunk_text_loop(chunker)
                  ELSE [chunker EXCEPT !.pc = "returned"]
    /\ chunk_unchanged

ChunkNext ==
    \/ chunk_text
    \/ chunk_text_while

ChunkSpec == PipelineInit /\ [][ChunkNext]_vars

(***************************************************************************)
(* Concurrent calls of LangGraphMCP.process_query.  Every caller has its   *)
(* own AgentState (process_query builds it, workflow.ainvoke threads it    *)
(* through the handlers); the callers share self.sessions and the vector   *)
(* store.  A caller advances as the single traversal does: _update_step,   *)
(* the handler's body, the edge.  Each caller calls once; the stages       *)
(* answer without raising here, and the classifier answers one of          *)
(* ConcurrentIntents.                                                      *)
(***************************************************************************)
RequestSessionIds == [r1 |-> {"s1"}, r2 |-> {"s1", "s2"}]

ConcurrentIntents == {"compare", "research"}

succeeded(results) == {r \in results : ~r.raised}

\* The body of a node's handler: the states it can leave, each with the
\* number of chunks it added to the vector store.
body_outcomes(n, st) ==
    LET none(states) == {[state |-> x, chunks |-> 0] : x \in states}
    IN  CASE n = "preprocess" -> none({preprocess_input(st)})
          [] n = "intent_classification" ->
                none({classify_intent(st, r) :
                        r \in {x \in succeeded(IntentResults(st.query)) :
                                 x.intent \in ConcurrentIntents}})
          [] n = "multimodal_processing" ->
                {[state |-> process_multimodal(st, o), chunks |-> o.chunks] :
                    o \in succeeded(MultimodalOutcomes(st.input_type))}
          [] n = "research" ->
                none({research(st, r) : r \in succeeded(ResearchResults)})
          [] n = "compare" ->
                none({compare(st, r) : r \in succeeded(CompareResults)})
          [] n = "retrieve" ->
                none({retrieve(st, r) : r \in succeeded(RetrieveResults)})
          [] n = "summarize" ->
                none({summarize(st, r) :
                        r \in succeeded(SummarizerResults(st.research_content,
                                                          st.comparison_result))})
          [] n = "critique" ->
                none({critique(st, r) : r \in succeeded(CritiqueResults)})
          [] n = "tts" ->
                none({text_to_speech(st, f) : f \in TtsResults})
          [] n = "finalize" -> none({finalize_result(st)})

\* The edge leaving a node: the node it leads to ("raised" when the label
\* is no key of the edge map) and the state the routing function leaves.
edge_outcome(n, st, stats) ==
    LET to(edges, label) == IF label \in DOMAIN edges THEN edges[label]
                            ELSE "raised"
    IN  CASE n \in DOMAIN FixedEdges -> [node |-> FixedEdges[n], state |-> st]
          [] n = "intent_classification" ->
                [node |-> to(IntentEdges, route_after_intent(st, stats)),
                 state |-> st]
          [] n = "summarize" ->
                [node |-> to(SummarizeEdges, should_critique(st)), state |-> st]
          [] n = "critique" ->
                [node |-> to(CritiqueEdges, handle_critique_result(st).label),
                 state |-> handle_critique_result(st).state]
          [] n = "tts" ->
                [node |-> to(TtsEdges, should_finalize(st)), state |-> st]

in_flight(r) == calls[r].node \in Nodes \cup {END}

others_unchanged == UNCHANGED <<graph_vars, pipeline_vars, stream, service_vars>>

concurrent_process_query ==
    /\ \E r \in Requests :
          /\ calls[r].node = "idle"
          /\ \E query \in Queries, session_id \in RequestSessionIds[r] :
                /\ sessions' = [s \in DOMAIN sessions \cup {session_id} |->
                                  IF s = session_id THEN new_session
                                  ELSE sessions[s]]
                /\ calls' = [calls EXCEPT ![r] =
                                [state |-> initial_state(query, session_id, FALSE, None),
                                 node |-> "preprocess", at |-> "step"]]
    /\ UNCHANGED total_documents
    /\ others_unchanged

concurrent_update_step ==
    /\ \E r \in Requests :
          /\ calls[r].node \in Nodes /\ calls[r].at = "step"
          /\ LET st == calls[r].state
                 c == step_call(calls[r].node, st)
             IN  IF c.called
                 THEN /\ calls' = [calls EXCEPT
                                     ![r].state = update_step_state(st, c.message, c.step),
                                     ![r].at = "work"]
                      /\ sessions' = update_step_sessions(sessions, st, c.message, c.step)
                 ELSE /\ calls' = [calls EXCEPT ![r].at = "work"]
                      /\ UNCHANGED sessions
    /\ UNCHANGED total_documents
    /\ others_unchanged

concurrent_node_body ==
    /\ \E r \in Requests :
          /\ calls[r].node \in Nodes /\ calls[r].at = "work"
          /\ \E o \in body_outcomes(calls[r].node, calls[r].state) :
                /\ calls' = [calls EXCEPT ![r].state = o.state, ![r].at = "route"]
                /\ total_documents' = add_documents(total_documents, o.chunks)
    /\ UNCHANGED sessions
    /\ others_unchanged

concurrent_edge ==
    /\ \E r \in Requests :
          /\ calls[r].node \in Nodes /\ calls[r].at = "route"
          /\ \E count_raises \in BOOLEAN :
                LET e == edge_outcome(calls[r].node, calls[r].state,
                                      get_stats(total_documents, count_raises))
                IN  /\ calls' = [calls EXCEPT ![r].state = e.state,
                                              ![r].node = e.node,
                                              ![r].at = "step"]
                    /\ sessions' = IF e.node = "raised"
                                   THEN session_error(sessions, e.state.session_id)
                                   ELSE sessions
    /\ UNCHANGED total_documents
    /\ others_unchanged

concurrent_process_query_return ==
    /\ \E r \in Requests :
          /\ calls[r].node = END
          /\ sessions' = session_completed(sessions, calls[r].state.session_id,
                                           calls[r].state.final_result)
          /\ calls' = [calls EXCEPT ![r].node = "returned"]
    /\ UNCHANGED total_documents
    /\ others_unchanged

ConcurrentNext ==
    \/ concurrent_process_query
    \/ concurrent_update_step
    \/ concurrent_node_body
    \/ concurrent_edge
    \/ concurrent_process_query_return

ConcurrentInit == Init /\ total_documents = 1

ConcurrentSpec == ConcurrentInit /\ [][ConcurrentNext]_vars

(***************************************************************************)
(* Properties.                                                             *)
(***************************************************************************)
runs(n) == Cardinality({i \in DOMAIN path : path[i] = n})

last_ran == IF Len(path) = 0 THEN "" ELSE path[Len(path)]

IsPrefix(s, t) == Len(s) <= Len(t) /\ SubSeq(t, 1, Len(s)) = s

\* C1: in every step of a traversal started by process_query, retry_count
\* does not decrease, and it is never greater than 1.
C1_RetryCountMonotoneBounded ==
    [][InFlight => /\ state.retry_count <= 1
                   /\ state'.retry_count >= state.retry_count
                   /\ state'.retry_count <= 1]_vars

C1_Witness == node = "finalize" /\ state.retry_count = 1

\* C2: whatever Critique reports on each pass, the Critique node runs at
\* most 2 times within one traversal.
C2_CritiqueAtMostTwice == runs("critique") <= 2

C2_Witness == runs("critique") = 2 /\ node = "returned"

\* C3: every traversal eventually reaches the Finalize node and stops after
\* it (process_query returns), whatever the stages report or raise.
C3_ReachesFinalizeAndStops ==
    InFlight ~> (node = "returned" /\ last_ran = "finalize")

C3_Witness ==
    node = "returned" /\ last_ran = "finalize" /\ state.retry_count = 1

\* C4: when the first Critique asks for improvement (retry_count is 0) the
\* engine goes back to Research and retry_count becomes 1; after the second
\* Critique it goes to TextToSpeech if enable_tts, else to Finalize, whatever
\* the second Critique asked for, and retry_count stays 1.
C4_RetryOnceThenProceed ==
    [][(node = "critique" /\ at = "route" /\ node' # node) =>
        /\ (runs("critique") = 1 /\ state.needs_improvement) =>
              (node' = "research" /\ state.retry_count = 0
               /\ state'.retry_count = 1)
        /\ (runs("critique") = 2) =>
              (/\ node' = (IF state.enable_tts THEN "tts" ELSE "finalize")
               /\ state.retry_count = 1
               /\ state'.retry_count = 1
               /\ runs("research") <= 2)]_vars

C4_Witness ==
    /\ runs("critique") = 2
    /\ last_ran = "critique"
    /\ state.needs_improvement
    /\ node = "finalize"

\* C5: when input_type is image, audio or document, RouteAfterIntent leads
\* to MultimodalProcessing, whatever the intent and the corpus size.
C5_MultimodalTypesRouteToMultimodal ==
    [][(/\ node = "intent_classification" /\ at = "route"
        /\ state.input_type \in {"image", "audio", "document"}
        /\ node' # node) => node' = "multimodal_processing"]_vars

C5_Witness ==
    /\ node = "multimodal_processing"
    /\ state.intent = "compare"
    /\ total_documents > 0

\* C6 (as stated): when input_type is not image, audio or document,
\* RouteAfterIntent leads to Compare when the intent is compare, to Retrieve
\* exactly when the intent is summarize, research, explain or analyze and the
\* vector store holds at least one document, and to Research otherwise.
C6_RouteByIntentAndCorpus ==
    [][(/\ node = "intent_classification" /\ at = "route"
        /\ state.input_type \notin {"image", "audio", "document"}
        /\ node' # node) =>
          node' = (IF state.intent = "compare" THEN "compare"
                   ELSE IF /\ state.intent \in {"summarize", "research",
                                                "explain", "analyze"}
                           /\ total_documents > 0
                        THEN "retrieve"
                        ELSE "research")]_vars

\* C6 (amended): as C6, with "the statistics call of the vector store
\* reports at least one document" in place of "the vector store holds at
\* least one document"; the statistics call reports 0 when its count query
\* fails, and never more than the store holds.
C6_RouteByIntentAndReport ==
    [][(/\ node = "intent_classification" /\ at = "route"
        /\ state.input_type \notin {"image", "audio", "document"}
        /\ node' # node) =>
          /\ node' = (IF state.intent = "compare" THEN "compare"
                      ELSE IF /\ state.intent \in {"summarize", "research",
                                                   "explain", "analyze"}
                              /\ stats_report' > 0
                           THEN "retrieve"
                           ELSE "research")
          /\ stats_report' <= total_documents]_vars

C6_Witness ==
    /\ node = "retrieve"
    /\ state.input_type = "unknown"
    /\ state.intent = "analyze"

\* C7: every routing function returns, in every reachable state in which the
\* engine evaluates it, a label that is a key of the edge map of its node, and
\* no traversal ends in a routing failure.
C7_LabelsAreEdgeKeys ==
    /\ node # "raised"
    /\ (node = "intent_classification" /\ at = "route") =>
          \A count_raises \in BOOLEAN :
             route_after_intent(state, get_stats(total_documents, count_raises))
                \in DOMAIN IntentEdges
    /\ (node = "summarize" /\ at = "route") =>
          should_critique(state) \in DOMAIN SummarizeEdges
    /\ (node = "critique" /\ at = "route") =>
          handle_critique_result(state).label \in DOMAIN CritiqueEdges
    /\ (node = "tts" /\ at = "route") =>
          should_finalize(state) \in DOMAIN TtsEdges

C7_Witness ==
    /\ node = "returned"
    /\ runs("critique") = 2
    /\ runs("tts") = 1
    /\ runs("multimodal_processing") = 1

C9_RoutingFrame ==
    [][/\ (node \in {"intent_classification", "summarize", "tts"} /\ at = "route")
            => state' = state
       /\ (node = "critique" /\ at = "route") =>
             state' = [state EXCEPT !.retry_count =
                          IF node' = "research" THEN @ + 1 ELSE @]]_vars

C9_Witness ==
    node = "research" /\ at = "step" /\ state.retry_count = 1

\* C10: in every step of a traversal, Preprocess included, processing_steps
\* before the step is a prefix of processing_steps after it.
C10_StepsAppendOnly ==
    [][InFlight => IsPrefix(state.processing_steps, state'.processing_steps)]_vars

(***************************************************************************)
(* The step log: its last record, and the content-producing nodes.         *)
(***************************************************************************)
last_step == state.processing_steps[Len(state.processing_steps)]

ContentNodes == {"multimodal_processing", "research", "compare", "retrieve"}

content_runs == Cardinality({i \in DOMAIN path : path[i] \in ContentNodes})

ContentFields ==
    {state.research_content, state.comparison_result, state.vision_result,
     state.ocr_result, state.transcription, state.retrieved_content}

\* C11: in every reachable state the records of processing_steps are in
\* strictly increasing order of step number, on the retry path too.
C11_StepsStrictlyOrdered ==
    \A i \in 1..(Len(state.processing_steps) - 1) :
        state.processing_steps[i].step < state.processing_steps[i + 1].step

\* C12 as stated: when a traversal has completed, the last record of
\* processing_steps has status "completed" and its step number is the
\* number of records.
C12_LastStepIsCount ==
    node = "returned" =>
        /\ last_step.status = "completed"
        /\ last_step.step = Len(state.processing_steps)

\* C12: when a traversal has completed, the last record of processing_steps
\* has status "completed" and step number 8, the number _finalize_result
\* passes, whatever the number of records (5 to 9).
C12_LastStepIsFinal ==
    node \in {END, "returned"} =>
        /\ Len(state.processing_steps) \in 5..9
        /\ last_step.status = "completed"
        /\ last_step.step = FinalStep

C12_Witness ==
    /\ node = "returned"
    /\ Len(state.processing_steps) = 5
    /\ last_step.step = FinalStep

\* C13: once a node's output is merged the record its execution appended
\* has status "completed", and when the traversal has ended no record has
\* status "active".
C13_NoActiveRecordLeft ==
    /\ (InFlight /\ at = "route" /\ Len(state.processing_steps) > 0)
          => last_step.status = "completed"
    /\ node \in {END, "returned"} =>
          \A i \in DOMAIN state.processing_steps :
              state.processing_steps[i].status # "active"

\* C14: final_result is empty until the finalize node has run, and the
\* only step of a traversal that changes it is the body of finalize.
C14_OnlyFinalizeWritesResult ==
    /\ [](InFlight /\ runs("finalize") = 0 => DOMAIN state.final_result = {})
    /\ [][InFlight /\ state'.final_result # state.final_result
            => node = "finalize" /\ at = "work"]_vars

C14_Witness ==
    /\ node = "finalize" /\ at = "route"
    /\ state.audio_file = "/audio/tts_output.wav"
    /\ "summary" \in DOMAIN state.final_result

stage_failed ==
    \/ state.summary = "Summarization failed"
    \/ state.research_content \in {"Research failed", "Comparison failed",
                                    "Retrieval failed", "Failed to process document"}
    \/ state.transcription = "Failed to transcribe audio"

C17_ExecuteNeverRaises == mcp_call.failure # "StageFailure"

\* C18: in the step in which process_query raises to its caller, the
\* session's entry is in the registry with status "error" and the failure
\* recorded, whatever cancel_session and cleanup_old_sessions did before.
C18_ErrorRecordedWhenRaised ==
    [][(mcp_call.pc # "raised" /\ mcp_call'.pc = "raised") =>
          /\ mcp_call.session_id \in DOMAIN mcp_sessions'
          /\ mcp_sessions'[mcp_call.session_id].status = "error"
          /\ mcp_sessions'[mcp_call.session_id].error # None]_vars

\* C19: no two calls of process_query in flight hold the same session_id
\* (a second call with the session_id of a traversal in flight starts no
\* second traversal under it).
C19_OneInFlightPerSession ==
    \A r, q \in Requests :
        (r # q /\ in_flight(r) /\ in_flight(q)) =>
            calls[r].state.session_id # calls[q].state.session_id

\* C20: when two calls of process_query with different session ids are in
\* flight, a step of one (its start included) leaves the AgentState and the
\* position of the other, and the other session's registry entry, as they
\* were.
C20_TraversalsIsolated ==
    [][\A r, q \in Requests :
          (/\ r # q
           /\ calls'[r] # calls[r]
           /\ in_flight(q)
           /\ calls'[r].state.session_id # calls[q].state.session_id) =>
              /\ calls'[q] = calls[q]
              /\ sessions'[calls[q].state.session_id]
                    = sessions[calls[q].state.session_id]]_vars

C20_Witness ==
    /\ calls["r1"].node = "summarize" /\ calls["r1"].state.session_id = "s1"
    /\ calls["r2"].node = "critique" /\ calls["r2"].state.session_id = "s2"
    /\ sessions["s1"].current_step = 4
    /\ sessions["s2"].current_step = 5

\* C26: at every node boundary of a traversal in flight the session's entry
\* holds the steps and the current_step of the AgentState.
C26_RegistryMirrorsState ==
    (InFlight /\ at \in {"step", "route"}) =>
        /\ sessions[state.session_id].steps = state.processing_steps
        /\ sessions[state.session_id].current_step = state.current_step

\* C27: over the _update_step calls of one traversal, retry included, the
\* current_step of the session's entry never decreases.
C27_CurrentStepOnlyAdvances ==
    [][(InFlight /\ node' \in Nodes) =>
          sessions'[state.session_id].current_step
            >= sessions[state.session_id].current_step]_vars

\* C30: the tts node runs at most once; a traversal that has returned ran
\* it exactly when enable_tts is true; the node that runs after it is
\* finalize; with enable_tts false the final state has no audio_file and
\* final_result has no audio record.
C30_TtsIffEnabled ==
    /\ runs("tts") <= 1
    /\ (InFlight /\ runs("tts") = 1) => state.enable_tts
    /\ node \in {END, "returned"} => (runs("tts") = 1 <=> state.enable_tts)
    /\ \A i \in DOMAIN path :
          (path[i] = "tts" /\ i < Len(path)) => path[i + 1] = "finalize"
    /\ last_ran = "tts" => node \in {"tts", "finalize"}
    /\ (node \in {END, "returned"} /\ ~state.enable_tts) =>
          /\ state.audio_file = None
          /\ "audio" \notin DOMAIN state.final_result

C30_Witness ==
    /\ node = "returned"
    /\ state.enable_tts
    /\ runs("tts") = 1
    /\ state.retry_count = 1
    /\ "audio" \in DOMAIN state.final_result

(***************************************************************************)
(* The pipeline's call is in flight from its start to its return or raise; *)
(* a step starts a new call when it raises `started`.                      *)
(***************************************************************************)
mcp_in_flight == mcp_call.pc \in {"step", "call", "run", "compile", "except"}

TerminalStatuses == {"completed", "error", "cancelled"}

\* C21: once the session of the call in flight is cancelled, its entry
\* keeps the status "cancelled" and the steps recorded so far for as long
\* as it is in the registry, the finishing of the call included (so every
\* later get_session_status reports "cancelled").
C21_CancelledStaysCancelled ==
    [][(/\ mcp_in_flight
        /\ mcp_call'.started = mcp_call.started
        /\ mcp_call.session_id \in DOMAIN mcp_sessions
        /\ mcp_call.session_id \in DOMAIN mcp_sessions'
        /\ mcp_sessions[mcp_call.session_id].status = "cancelled") =>
          /\ mcp_sessions'[mcp_call.session_id].status = "cancelled"
          /\ IsPrefix(mcp_sessions[mcp_call.session_id].steps,
                      mcp_sessions'[mcp_call.session_id].steps)]_vars

\* C22: once the session of the call in flight is marked cancelled, no
\* further stage begins (no agent is executed, no step is recorded) and
\* the call does not go on to mark the session completed.
C22_CancelStopsTraversal ==
    [][(/\ mcp_in_flight
        /\ mcp_call.session_id \in DOMAIN mcp_sessions
        /\ mcp_sessions[mcp_call.session_id].status = "cancelled") =>
          /\ ~(mcp_call.pc = "call" /\ mcp_call'.pc = "run")
          /\ ~(mcp_call.pc = "step" /\ mcp_call'.pc # "step")
          /\ ~(mcp_call.pc = "compile" /\ mcp_call'.pc = "returned")]_vars

\* C23: get_session_status and cancel_session for a session_id the
\* registry does not hold return the not-found record and leave the
\* registry as it was.
C23_UnknownSessionNotFound ==
    [][(/\ mcp_last'.op \in {"get_session_status", "cancel_session"}
        /\ mcp_last'.session_id \notin DOMAIN mcp_sessions) =>
          /\ mcp_last'.result = not_found
          /\ mcp_sessions' = mcp_sessions]_vars

C23_Witness ==
    /\ mcp_last.op = "cancel_session"
    /\ mcp_last.session_id = "s2"
    /\ mcp_last.result = not_found
    /\ DOMAIN mcp_sessions = {"s1"}

\* C24: cleanup_old_sessions removes exactly the entries whose age, the
\* time now minus start_time, is greater than the timeout, and leaves
\* every other entry as it was.
C24_CleanupRemovesExpired ==
    [][mcp_last'.op = "cleanup_old_sessions" =>
          /\ DOMAIN mcp_sessions' =
                {s \in DOMAIN mcp_sessions :
                    now - mcp_sessions[s].start_time <= SessionTimeout}
          /\ \A s \in DOMAIN mcp_sessions' : mcp_sessions'[s] = mcp_sessions[s]]_vars

C24_Witness ==
    /\ mcp_last.op = "cleanup_old_sessions"
    /\ DOMAIN mcp_sessions = {"s2"}
    /\ mcp_call.started = 2
    /\ now - mcp_sessions["s2"].start_time = SessionTimeout

\* C25: no operation on the registry raises because of what another
\* caller did in between: process_query never meets a KeyError on its
\* session's entry, and every entry keeps its keys and a known status.
C25_RegistryNeverCorrupted ==
    /\ mcp_call.failure # "KeyError"
    /\ \A s \in DOMAIN mcp_sessions :
          /\ mcp_sessions[s].status \in {"processing"} \cup TerminalStatuses
          /\ mcp_sessions[s].current_step \in 0..LastStage

\* C28: every entry of the registry has one of the four statuses; the
\* entry a call of process_query creates has status "processing" and no
\* steps; an entry with status "completed" holds a result and an entry
\* with status "error" holds an error.
C28_EntriesWellFormed ==
    /\ [](\A s \in DOMAIN mcp_sessions :
             /\ mcp_sessions[s].status \in {"processing"} \cup TerminalStatuses
             /\ mcp_sessions[s].status = "completed" => mcp_sessions[s].result # <<>>
             /\ mcp_sessions[s].status = "error" => mcp_sessions[s].error # None)
    /\ [][mcp_call'.started # mcp_call.started =>
             /\ mcp_sessions'[mcp_call'.session_id].status = "processing"
             /\ mcp_sessions'[mcp_call'.session_id].steps = <<>>]_vars

C28_Witness ==
    /\ DOMAIN mcp_sessions = {"s1", "s2"}
    /\ mcp_sessions["s1"].status = "error"
    /\ mcp_sessions["s1"].error = "StageFailure"
    /\ mcp_sessions["s2"].status = "completed"
    /\ Len(mcp_sessions["s2"].result[1].steps) = LastStage

\* C29: an entry whose status is completed, error or cancelled keeps that
\* status for as long as it is in the registry, whatever the call in
\* flight, cancel_session or _update_session_step do (a new call of
\* process_query under the same session_id set aside).
C29_TerminalStatusStays ==
    [][\A s \in DOMAIN mcp_sessions \cap DOMAIN mcp_sessions' :
          (/\ mcp_sessions[s].status \in TerminalStatuses
           /\ mcp_call'.started = mcp_call.started) =>
              mcp_sessions'[s].status = mcp_sessions[s].status]_vars

\* C31: the retry edge leads to research whatever branch ran first;
\* preprocess and intent_classification run once per traversal; and
\* intent, entities and query are, when research runs again, what they
\* were when the retry was decided.
C31_RetryReentersAtResearch ==
    /\ [](/\ runs("preprocess") <= 1
          /\ runs("intent_classification") <= 1
          /\ node \in {END, "returned"} =>
                runs("preprocess") = 1 /\ runs("intent_classification") = 1
          /\ \A i \in DOMAIN path :
                (path[i] = "critique" /\ i < Len(path)) =>
                    path[i + 1] \in {"research", "tts", "finalize"})
    /\ [][(node = "critique" /\ at = "route" /\ state'.retry_count > state.retry_count)
             => node' = "research"]_vars
    /\ [][((node = "critique" /\ at = "route") \/ (node = "research" /\ runs("critique") = 1))
             => /\ state'.intent = state.intent
                /\ state'.entities = state.entities
                /\ state'.query = state.query]_vars

C31_Witness ==
    /\ node = "research" /\ at = "route"
    /\ state.retry_count = 1
    /\ path[3] = "multimodal_processing"
    /\ state.query = "spoken words"

\* C32 as stated: a text request (no file) classified as compare runs
\* preprocess, intent_classification, compare, summarize, critique and
\* finalize, with tts before finalize when enable_tts, and nothing else;
\* final_result.intent is "compare".
C32_ComparePath ==
    (node = "returned" /\ state.file_path = None /\ state.intent = "compare") =>
        /\ path = <<"preprocess", "intent_classification", "compare",
                    "summarize", "critique">>
                  \o (IF state.enable_tts THEN <<"tts">> ELSE <<>>)
                  \o <<"finalize">>
        /\ state.final_result.intent = "compare"

\* C32: a text request (no file) classified as compare runs preprocess,
\* intent_classification, compare, summarize, critique, then research,
\* summarize and critique once more exactly when the first critique asked
\* for improvement, then tts when enable_tts, then finalize;
\* final_result.intent is "compare".
C32_ComparePathWithRetry ==
    (node = "returned" /\ state.file_path = None /\ state.intent = "compare") =>
        /\ path = <<"preprocess", "intent_classification", "compare",
                    "summarize", "critique">>
                  \o (IF state.retry_count = 1
                      THEN <<"research", "summarize", "critique">> ELSE <<>>)
                  \o (IF state.enable_tts THEN <<"tts">> ELSE <<>>)
                  \o <<"finalize">>
        /\ state.final_result.intent = "compare"

C32_Witness ==
    /\ node = "returned" /\ state.file_path = None /\ state.intent = "compare"
    /\ state.retry_count = 1
    /\ state.enable_tts
    /\ Len(path) = 10

\* C33: for a request whose file is a document, input_type is document,
\* the multimodal node runs before summarize, and final_result.research is
\* the text of the document (the failure text when the document cannot be
\* read), whatever the critique answers.
C33_DocumentResearchKept ==
    (node = "returned" /\ state.file_path \in DocumentSuffixes) =>
        /\ state.input_type = "document"
        /\ path[3] = "multimodal_processing" /\ path[4] = "summarize"
        /\ state.final_result.research \in {"document text", "Failed to process document"}

\* C35: should_critique always answers critique: the node that runs after
\* summarize is critique, and a traversal that has ended ran critique
\* retry_count + 1 times.
C35_AlwaysCritique ==
    /\ (node = "summarize" /\ at = "route") => should_critique(state) = "critique"
    /\ \A i \in DOMAIN path :
          (path[i] = "summarize" /\ i < Len(path)) => path[i + 1] = "critique"
    /\ last_ran = "summarize" => node \in {"summarize", "critique"}
    /\ node \in {END, "returned"} => runs("critique") = state.retry_count + 1

C35_Witness ==
    /\ node = "returned"
    /\ runs("summarize") = 2
    /\ runs("critique") = 2
    /\ state.retry_count = 1

\* C36: a critique that fails asks for no retry: when the critique node
\* leaves the score of its except branch (7.0) or of the agent's degraded
\* answer (5.0), needs_improvement is false, the retry edge is not taken
\* and retry_count stays.
C36_FailedCritiqueNoRetry ==
    /\ []((node = "critique" /\ at = "route" /\ state.quality_score \in {50, 70})
            => ~state.needs_improvement)
    /\ [][(node = "critique" /\ at = "route" /\ state.quality_score \in {50, 70})
            => /\ node' # "research"
               /\ state'.retry_count = state.retry_count]_vars

C36_Witness ==
    /\ node = "finalize" /\ at = "step"
    /\ state.quality_score = 70
    /\ runs("critique") = 1
    /\ state.retry_count = 0

\* C37: a stream of a session that is terminal (completed, error or
\* cancelled) or absent from the registry ends.
C37_StreamEnds ==
    (/\ stream.pc \in {"poll", "yielded"}
     /\ (stream.session_id \in DOMAIN mcp_sessions =>
            mcp_sessions[stream.session_id].status \in TerminalStatuses))
        ~> (stream.pc = "ended")

C38_RunningWhileInFlight ==
    /\ \A a \in AgentNames : agent_status[a] \in AgentStatuses
    /\ \A r \in Requests :
          executes[r].pc = "process" => agent_status[executes[r].agent] = "running"

logs_of(logs, session_id) ==
    IF session_id \in DOMAIN logs THEN logs[session_id] ELSE <<>>

\* C39: a toggle of the debug mode for one session changes, for every
\* other session, neither whether its logs are recorded nor the logs it has
\* recorded.
C39_TogglePerSession ==
    [][debug_last'.op = "toggle_debug" =>
          \A other \in DebugSessionIds \ {debug_last'.session_id} :
              /\ records(debug_enabled', other) = records(debug_enabled, other)
              /\ logs_of(session_logs', other) = logs_of(session_logs, other)]_vars

\* C40: chunk_text called with chunk_size >= 1 and overlap >= 0 advances:
\* every iteration of its loop that is followed by another one leaves start
\* greater than it was.
C40_StartIncreases ==
    [][(chunker.pc = "while" /\ chunker'.pc = "while") =>
          chunker'.start > chunker.start]_vars
====
